---- MODULE Spec2Model ----
(***************************************************************************)
(* The Federal DEI Contracts dashboard (src/app.py) as a state machine.    *)
(*                                                                         *)
(* The program is a Streamlit script: every user interaction re-executes   *)
(* the script top to bottom.  load_data() is memoized by st.cache_data,    *)
(* everything else is recomputed in every run.  The state is the CSV file  *)
(* on disk, the memo of load_data, and the script's module-level           *)
(* variables as the last run left them.                                    *)
(*                                                                         *)
(* Conventions                                                             *)
(*   - text the code inspects character by character (amount cells, theme  *)
(*     column names, labels) is a sequence of one-character strings;       *)
(*     other text is an opaque string;                                     *)
(*   - money is an integer number of cents, so 9999.99 is 999999;          *)
(*   - a calendar date is the integer yyyymmdd, a Timestamp adds a         *)
(*     time-of-day slot; pandas' missing values NaN / NaT are explicit.    *)
(***************************************************************************)
EXTENDS Integers, Sequences, FiniteSets, TLC

VARIABLES
    csv,               \* dei_contracts_master.csv as it is on disk
    cache,             \* st.cache_data memo of load_data()
    reads,             \* how many times pd.read_csv has run
    df,                \* script variable df of the last run
    date_range,        \* sidebar: (start, end) of st.date_input
    selected_agency,   \* sidebar: st.selectbox("Select Agency")
    selected_size,     \* sidebar: st.selectbox("Select Award Size")
    selected_themes,   \* sidebar: st.multiselect("Select DEI Themes")
    filtered_df,       \* df[mask]
    metrics,           \* the three st.metric values
    theme_data,        \* theme label -> number of contracts
    top_10_agencies,   \* rows (agency, total) of the agency bar chart
    timeline_data,     \* rows (month, amount, count) of the timeline
    random_awards,     \* positions of filtered_df drawn by .sample()
    rendered,          \* UI elements the last run put on the page
    status             \* how the last run ended

vars == <<csv, cache, reads, df, date_range, selected_agency, selected_size,
          selected_themes, filtered_df, metrics, theme_data, top_10_agencies,
          timeline_data, random_awards, rendered, status>>

(***************************************************************************)
(* Generic helpers                                                         *)
(***************************************************************************)
Range(s) == {s[i] : i \in DOMAIN s}

RECURSIVE SumSeq(_)
SumSeq(s) == IF s = <<>> THEN 0 ELSE Head(s) + SumSeq(Tail(s))

Min2(a, b) == IF a <= b THEN a ELSE b

\* pandas' missing value in a text column
NaN == "nan"

(***************************************************************************)
(* Amount cells: .replace(r'[$,]', '', regex=True).astype(float)           *)
(***************************************************************************)
DigitChars == <<"0", "1", "2", "3", "4", "5", "6", "7", "8", "9">>

IsDigit(c) == c \in Range(DigitChars)

DigitVal(c) == (CHOOSE i \in DOMAIN DigitChars : DigitChars[i] = c) - 1

RECURSIVE DigitsVal(_)
DigitsVal(s) ==
    IF s = <<>> THEN 0
    ELSE DigitsVal(SubSeq(s, 1, Len(s) - 1)) * 10 + DigitVal(s[Len(s)])

AllDigits(s) == s # <<>> /\ \A i \in DOMAIN s : IsDigit(s[i])

\* the regex replace: every '$' and every ',' is deleted
StripCurrency(s) == SelectSeq(s, LAMBDA c : c \notin {"$", ","})

\* float(text), in cents: <<v>> when text is [-]digits[.d[d]], <<>> when
\* Python raises ValueError (the text is not a number)
AsFloat(s) ==
    LET neg  == s # <<>> /\ s[1] = "-"
        body == IF neg THEN Tail(s) ELSE s
        dots == {i \in DOMAIN body : body[i] = "."}
        sign == IF neg THEN -1 ELSE 1
    IN  IF dots = {}
        THEN IF AllDigits(body) THEN <<sign * DigitsVal(body) * 100>> ELSE <<>>
        ELSE IF Cardinality(dots) > 1 THEN <<>>
        ELSE LET p    == CHOOSE i \in dots : TRUE
                 ip   == SubSeq(body, 1, p - 1)
                 fp   == SubSeq(body, p + 1, Len(body))
                 frac == IF Len(fp) = 1 THEN DigitVal(fp[1]) * 10
                         ELSE DigitsVal(fp)
             IN  IF AllDigits(ip) /\ AllDigits(fp) /\ Len(fp) <= 2
                 THEN <<sign * (DigitsVal(ip) * 100 + frac)>>
                 ELSE <<>>

ParseAmount(cell) == AsFloat(StripCurrency(cell))

(***************************************************************************)
(* Award size categories: pd.cut(amount, bins, labels)                     *)
(***************************************************************************)
\* bins=[0, 10000, 100000, 1000000, 10000000, float('inf')], in cents; the
\* sixth edge, float('inf'), is above every amount
BinEdges == <<0, 1000000, 10000000, 100000000, 1000000000>>

SizeLabels == <<"Micro (< $10K)", "Small ($10K - $100K)", "Medium ($100K - $1M)",
                "Large ($1M - $10M)", "Major (> $10M)">>

\* pd.cut defaults: right=True, include_lowest=False, so bin i is the
\* interval (edge i, edge i+1]
InBin(a, i) ==
    /\ BinEdges[i] < a
    /\ (i = Len(SizeLabels) \/ a <= BinEdges[i + 1])

\* a value in no bin gets NaN
Cut(a) ==
    IF \E i \in DOMAIN SizeLabels : InBin(a, i)
    THEN SizeLabels[CHOOSE i \in DOMAIN SizeLabels : InBin(a, i)]
    ELSE NaN

(***************************************************************************)
(* Agency names: df['awarding_agency_name'].replace(agency_mappings)       *)
(***************************************************************************)
agency_mappings ==
    ("Agency for International Development (USAID)" :> "Agency for International Development") @@
    ("Agency for International Development" :> "Agency for International Development") @@
    ("Department of Health and Human Services (HHS)" :> "Department of Health and Human Services") @@
    ("Department of Health and Human Services" :> "Department of Health and Human Services") @@
    ("National Science Foundation (NSF)" :> "National Science Foundation") @@
    ("National Science Foundation" :> "National Science Foundation") @@
    ("Department of Justice (DOJ)" :> "Department of Justice") @@
    ("Department of Justice" :> "Department of Justice") @@
    ("Department of Defense (DOD)" :> "Department of Defense") @@
    ("Department of Defense" :> "Department of Defense") @@
    ("Department of Education (ED)" :> "Department of Education") @@
    ("Department of Education" :> "Department of Education") @@
    ("Environmental Protection Agency (EPA)" :> "Environmental Protection Agency") @@
    ("Environmental Protection Agency" :> "Environmental Protection Agency")

\* a mapping in which one pair was typed the wrong way round
CanonicalizeSwapped(name) ==
    IF name = "Department of Justice" THEN "Department of Justice (DOJ)"
    ELSE IF name \in DOMAIN agency_mappings THEN agency_mappings[name]
    ELSE name

\* Series.replace with a dict: a value equal to a key becomes that key's
\* value, every other value is kept
Canonicalize(name) ==
    IF name \in DOMAIN agency_mappings THEN agency_mappings[name] ELSE name

(***************************************************************************)
(* Dates                                                                   *)
(***************************************************************************)
\* a date cell of the CSV: a parseable timestamp, an empty cell, or text
\* pd.to_datetime cannot parse
TsCell(d, t) == [kind |-> "ts", date |-> d, tod |-> t]
EmptyCell    == [kind |-> "empty", date |-> 0, tod |-> 0]
BadCell      == [kind |-> "bad", date |-> 0, tod |-> 0]

NaT == [nat |-> TRUE, date |-> 0, tod |-> 0]

\* pd.to_datetime on one cell: an empty cell becomes NaT
ToDatetime(cell) ==
    IF cell.kind = "empty" THEN NaT
    ELSE [nat |-> FALSE, date |-> cell.date, tod |-> cell.tod]

\* the day number of a calendar date (for Timestamp subtraction)
DayNumber(d) ==
    LET y  == d \div 10000
        m  == (d \div 100) % 100
        dd == d % 100
        a  == (14 - m) \div 12
        y2 == y + 4800 - a
        m2 == m + 12 * a - 3
    IN  dd + (153 * m2 + 2) \div 5 + 365 * y2 + y2 \div 4 - y2 \div 100
           + y2 \div 400 - 32045

\* (end - start).dt.days: <<>> is NaN (either side NaT); the time of day
\* is dropped by flooring the difference to whole days
DurationDays(start, end) ==
    IF start.nat \/ end.nat THEN <<>>
    ELSE <<DayNumber(end.date) - DayNumber(start.date)
           - (IF end.tod < start.tod THEN 1 ELSE 0)>>

(***************************************************************************)
(* The CSV file and the DataFrame                                          *)
(*                                                                         *)
(* A file is [exists, columns, extra, rows]: columns is the set of         *)
(* fixed-schema column names it has, extra the names of its other columns  *)
(* in file order (character sequences; the theme_ columns are among        *)
(* them), rows its records.  A row has one field per fixed-schema column   *)
(* and the field extra, one boolean cell per extra column.  A DataFrame    *)
(* has the same shape plus ok; load_data's None is the frame with          *)
(* ok = FALSE.                                                             *)
(***************************************************************************)
None == [ok |-> FALSE, columns |-> {}, extra |-> <<>>, rows |-> <<>>]

date_columns == <<"action_date", "contract_start_date", "contract_end_date">>

\* an exception leaves the try block with the frame as far as it got
Raise(d) == [d EXCEPT !.ok = FALSE]

MapRows(d, F(_)) == [d EXCEPT !.rows = [i \in DOMAIN d.rows |-> F(d.rows[i])]]

\* pd.read_csv(file_path)
ReadCsv(file) ==
    IF file.exists
    THEN [ok |-> TRUE, columns |-> file.columns, extra |-> file.extra,
          rows |-> file.rows]
    ELSE None

\* pd.to_datetime with errors='coerce': unparseable text becomes NaT
ConvertDateCoerce(d, col) ==
    IF ~d.ok THEN d
    ELSE IF col \notin d.columns THEN Raise(d)
    ELSE MapRows(d, LAMBDA r : [r EXCEPT ![col] =
             IF @.kind = "bad" THEN NaT ELSE ToDatetime(@)])

\* df[col] = pd.to_datetime(df[col]): KeyError without the column,
\* ValueError on a cell that is not a date
ConvertDate(d, col) ==
    IF ~d.ok THEN d
    ELSE IF col \notin d.columns THEN Raise(d)
    ELSE IF \E i \in DOMAIN d.rows : d.rows[i][col].kind = "bad" THEN Raise(d)
    ELSE MapRows(d, LAMBDA r : [r EXCEPT ![col] = ToDatetime(@)])

ConvertDates(d) ==
    ConvertDate(ConvertDate(ConvertDate(d, date_columns[1]), date_columns[2]),
                date_columns[3])

\* df['award_amount'] = ...replace(r'[$,]', '', regex=True).astype(float)
ConvertAmount(d) ==
    IF ~d.ok THEN d
    ELSE IF "award_amount" \notin d.columns THEN Raise(d)
    ELSE IF \E i \in DOMAIN d.rows : ParseAmount(d.rows[i].award_amount) = <<>>
         THEN Raise(d)
    ELSE MapRows(d, LAMBDA r : [r EXCEPT !.award_amount = ParseAmount(@)[1]])

\* df['awarding_agency_name'] = df['awarding_agency_name'].replace(agency_mappings)
ConsolidateAgencies(d) ==
    IF ~d.ok THEN d
    ELSE IF "awarding_agency_name" \notin d.columns THEN Raise(d)
    ELSE MapRows(d, LAMBDA r : [r EXCEPT !.awarding_agency_name = Canonicalize(@)])

\* if 'contract_duration_days' not in df.columns: ...
AddDuration(d) ==
    IF ~d.ok \/ "contract_duration_days" \in d.columns THEN d
    ELSE [MapRows(d, LAMBDA r :
              [contract_duration_days |->
                   DurationDays(r.contract_start_date, r.contract_end_date)] @@ r)
          EXCEPT !.columns = @ \cup {"contract_duration_days"}]

\* if 'award_size_category' not in df.columns: ... pd.cut(...)
AddSizeCategory(d) ==
    IF ~d.ok \/ "award_size_category" \in d.columns THEN d
    ELSE [MapRows(d, LAMBDA r :
              [award_size_category |-> Cut(r.award_amount)] @@ r)
          EXCEPT !.columns = @ \cup {"award_size_category"}]

\* the body of the try block
Normalize(file) ==
    AddSizeCategory(AddDuration(ConsolidateAgencies(ConvertAmount(
        ConvertDates(ReadCsv(file))))))

\* load_data whose date conversion coerces instead of raising
load_data_coerce(file) ==
    LET d == AddSizeCategory(AddDuration(ConsolidateAgencies(ConvertAmount(
                 ConvertDateCoerce(ConvertDateCoerce(ConvertDateCoerce(
                     ReadCsv(file), date_columns[1]), date_columns[2]),
                     date_columns[3])))))
    IN  IF d.ok THEN d ELSE None

\* load_data(): the frame, or None when anything in the try block raised
\* (except Exception: st.error(...); return None)
load_data(file) ==
    LET d == Normalize(file) IN IF d.ok THEN d ELSE None

(***************************************************************************)
(* @st.cache_data: the first call runs load_data and stores what it        *)
(* returned (None included); later calls return the stored value.          *)
(***************************************************************************)
EmptyCache == [filled |-> FALSE, value |-> None]

\* the decorator left out: every call runs the function
MemoHitNever(c) == FALSE

MemoHit(c) == c.filled

CachedValue == IF MemoHit(cache) THEN cache.value ELSE load_data(csv)

CacheAfterCall == IF MemoHit(cache) THEN cache
                  ELSE [filled |-> TRUE, value |-> load_data(csv)]

ReadsAfterCall == IF MemoHit(cache) THEN reads ELSE reads + 1

(***************************************************************************)
(* Blank values of the script variables (nothing has run yet)              *)
(***************************************************************************)
NoMetrics == [total_contracts |-> 0, total_award_amount |-> 0,
              unique_recipients |-> 0]

NotRun ==
    /\ cache = EmptyCache
    /\ reads = 0
    /\ df = None
    /\ date_range = <<>>
    /\ selected_agency = "All"
    /\ selected_size = "All"
    /\ selected_themes = {}
    /\ filtered_df = <<>>
    /\ metrics = NoMetrics
    /\ theme_data = <<>>
    /\ top_10_agencies = <<>>
    /\ timeline_data = <<>>
    /\ random_awards = {}
    /\ rendered = {}
    /\ status = "not_run"

\* a call of load_data() on its own
CallLoadData ==
    /\ df' = CachedValue
    /\ cache' = CacheAfterCall
    /\ reads' = ReadsAfterCall
    /\ status' = IF CachedValue.ok THEN "loaded" ELSE "load_error"
    /\ UNCHANGED <<csv, date_range, selected_agency, selected_size,
                   selected_themes, filtered_df, metrics, theme_data,
                   top_10_agencies, timeline_data, random_awards, rendered>>

(***************************************************************************)
(* Theme column names and their labels                                     *)
(***************************************************************************)
ThemePrefix == <<"t", "h", "e", "m", "e", "_">>

\* the letters of the modelled alphabet, lower case and upper case
LowerChars == <<"a", "b", "e", "h", "m", "t">>
UpperChars == <<"A", "B", "E", "H", "M", "T">>

IsLower(c) == c \in Range(LowerChars)
IsUpper(c) == c \in Range(UpperChars)
IsCased(c) == IsLower(c) \/ IsUpper(c)

ToUpper(c) ==
    IF IsLower(c) THEN UpperChars[CHOOSE i \in DOMAIN LowerChars : LowerChars[i] = c]
    ELSE c

ToLower(c) ==
    IF IsUpper(c) THEN LowerChars[CHOOSE i \in DOMAIN UpperChars : UpperChars[i] = c]
    ELSE c

\* col.startswith(prefix)
StartsWith(s, prefix) ==
    Len(s) >= Len(prefix) /\ SubSeq(s, 1, Len(prefix)) = prefix

\* str.replace(old, new): every occurrence, left to right, not overlapping
RECURSIVE StrReplace(_, _, _)
StrReplace(s, old, new) ==
    IF Len(s) < Len(old) THEN s
    ELSE IF SubSeq(s, 1, Len(old)) = old
         THEN new \o StrReplace(SubSeq(s, Len(old) + 1, Len(s)), old, new)
    ELSE <<Head(s)>> \o StrReplace(Tail(s), old, new)

\* str.title(): a cased character is upper-cased when the character before
\* it is not cased (or there is none), lower-cased otherwise
StrTitle(s) ==
    [i \in DOMAIN s |->
        IF i > 1 /\ IsCased(s[i - 1]) THEN ToLower(s[i]) ELSE ToUpper(s[i])]

\* str.lower()
StrLower(s) == [i \in DOMAIN s |-> ToLower(s[i])]

\* theme_columns = [col for col in df.columns if col.startswith('theme_')]
\* (no fixed-schema column name starts with theme_)
ThemeColumns(d) == SelectSeq(d.extra, LAMBDA c : StartsWith(c, ThemePrefix))

\* col.replace('theme_', '').replace('_', ' ').title()
ThemeLabel(col) == StrTitle(StrReplace(StrReplace(col, ThemePrefix, <<>>), <<"_">>, <<" ">>))

\* f"theme_{theme.lower().replace(' ', '_')}"
ThemeColumnOf(label) == ThemePrefix \o StrReplace(StrLower(label), <<" ">>, <<"_">>)

\* the cell of row r in extra column col (the first column of that name)
Flag(d, r, col) == r.extra[CHOOSE i \in DOMAIN d.extra : d.extra[i] = col]

(***************************************************************************)
(* Ordering                                                                *)
(***************************************************************************)
\* the elements of the finite set S in ascending order of key[x]; the
\* keys are distinct
RECURSIVE OrderedSeq(_, _)
OrderedSeq(S, key) ==
    IF S = {} THEN <<>>
    ELSE LET m == CHOOSE x \in S : \A y \in S : key[x] <= key[y]
         IN  <<m>> \o OrderedSeq(S \ {m}, key)

\* the positions I of the sequence t in ascending order of total, equal
\* totals in their order in t
RECURSIVE OrderByTotal(_, _)
OrderByTotal(I, t) ==
    IF I = {} THEN <<>>
    ELSE LET m == CHOOSE i \in I : \A j \in I \ {i} :
                     \/ t[i].award_amount < t[j].award_amount
                     \/ (t[i].award_amount = t[j].award_amount /\ i < j)
         IN  <<m>> \o OrderByTotal(I \ {m}, t)

\* Python's order of the agency names that occur (code point order), which
\* is the order groupby puts its keys in
AgencyOrder ==
    <<"Agency 01", "Agency 02", "Agency 03", "Agency 04", "Agency 05",
      "Agency 06", "Agency 07", "Agency 08", "Agency 09", "Agency 10",
      "Agency 11", "Agency 12", "Agency 13",
      "Agency for International Development",
      "Agency for International Development (USAID)",
      "Department of Defense", "Department of Defense (DOD)",
      "Department of Education", "Department of Education (ED)",
      "Department of Health and Human Services",
      "Department of Health and Human Services (HHS)",
      "Department of Justice", "Department of Justice (DOJ)",
      "Department of Justice (DoJ)", "Dept X",
      "Environmental Protection Agency",
      "Environmental Protection Agency (EPA)",
      "National Science Foundation", "National Science Foundation (NSF)">>

AgencyRank(name) == CHOOSE i \in DOMAIN AgencyOrder : AgencyOrder[i] = name

(***************************************************************************)
(* Sidebar                                                                 *)
(***************************************************************************)
\* df['action_date'].min() / .max() skip NaT; st.date_input keeps the date
ActionDates(d) ==
    {d.rows[i].action_date.date : i \in {j \in DOMAIN d.rows : ~d.rows[j].action_date.nat}}

min_date(d) == CHOOSE x \in ActionDates(d) : \A y \in ActionDates(d) : x <= y
max_date(d) == CHOOSE x \in ActionDates(d) : \A y \in ActionDates(d) : y <= x

\* ['All'] + sorted(df['awarding_agency_name'].unique().tolist())
AgencyOptions(d) ==
    {"All"} \cup {d.rows[i].awarding_agency_name : i \in DOMAIN d.rows}

\* df['award_size_category'].unique().tolist(): NaN is one of the values
SizeValues(d) == {d.rows[i].award_size_category : i \in DOMAIN d.rows}

\* sorted() raises TypeError as soon as it compares NaN (a float) with a label
SizesSortRaises(d) == NaN \in SizeValues(d) /\ Cardinality(SizeValues(d)) >= 2

SizeOptions(d) == {"All"} \cup SizeValues(d)

\* options of the multiselect
ThemeOptions(d) == {ThemeLabel(c) : c \in Range(ThemeColumns(d))}

\* the days st.date_input lets the user click: those of the calendar
\* between min_value and max_value
CalendarDays == {20230115, 20230120, 20230210}

DateRanges(d) ==
    LET lo0  == min_date(d)
        hi0  == max_date(d)
        days == {x \in CalendarDays \cup {lo0, hi0} : lo0 <= x /\ x <= hi0}
    IN  {r \in days \X days : r[1] <= r[2]}

Selection(dr, ag, sz, th) == [date_range |-> dr, agency |-> ag, size |-> sz, themes |-> th]

\* what the widgets return in a run nobody has touched them in
DefaultSelection(d) == Selection(<<min_date(d), max_date(d)>>, "All", "All", {})

(***************************************************************************)
(* Filter                                                                  *)
(***************************************************************************)
\* the comparison with the Timestamp instead of its date: a row later in
\* the day than midnight of the end date is cut off
DateMaskTimestamp(r, dr) ==
    /\ ~r.action_date.nat
    /\ r.action_date.date >= dr[1]
    /\ (r.action_date.date < dr[2] \/ (r.action_date.date = dr[2] /\ r.action_date.tod = 0))

\* (df['action_date'].dt.date >= date_range[0]) & (... <= date_range[1]);
\* a comparison with NaT is False
DateMask(r, dr) ==
    /\ ~r.action_date.nat
    /\ r.action_date.date >= dr[1]
    /\ r.action_date.date <= dr[2]

\* df['awarding_agency_name'] == selected_agency
AgencyMask(r, ag) == r.awarding_agency_name = ag

\* df['award_size_category'] == selected_size; NaN equals nothing
SizeMask(r, sz) == r.award_size_category # NaN /\ r.award_size_category = sz

\* df[col] raises KeyError when the frame has no column col
ThemeLookupRaises(d, th) ==
    \E t \in th : ThemeColumnOf(t) \notin Range(d.extra)

\* theme_mask &= df[col]: every selected theme instead of any
ThemeMaskAll(d, r, th) == \A t \in th : Flag(d, r, ThemeColumnOf(t))

\* theme_mask |= df[col], over the selected themes
ThemeMask(d, r, th) == \E t \in th : Flag(d, r, ThemeColumnOf(t))

Mask(d, r, sel) ==
    /\ DateMask(r, sel.date_range)
    /\ (sel.agency # "All" => AgencyMask(r, sel.agency))
    /\ (sel.size # "All" => SizeMask(r, sel.size))
    /\ (sel.themes # {} => ThemeMask(d, r, sel.themes))

\* filtered_df = df[mask]
Filter(d, sel) == SelectSeq(d.rows, LAMBDA r : Mask(d, r, sel))

(***************************************************************************)
(* Aggregates                                                              *)
(***************************************************************************)
Amounts(rows) == [i \in DOMAIN rows |-> rows[i].award_amount]

\* len(filtered_df), filtered_df['award_amount'].sum(),
\* filtered_df['recipient_name'].nunique()
Metrics(rows) ==
    [total_contracts    |-> Len(rows),
     total_award_amount |-> SumSeq(Amounts(rows)),
     unique_recipients  |-> Cardinality({rows[i].recipient_name : i \in DOMAIN rows} \ {NaN})]

\* filtered_df[theme_columns].sum(), index relabelled
ThemeData(d, rows) ==
    LET cols == ThemeColumns(d)
    IN  [k \in DOMAIN cols |->
            [label |-> ThemeLabel(cols[k]),
             count |-> Cardinality({i \in DOMAIN rows : Flag(d, rows[i], cols[k])})]]

\* groupby('awarding_agency_name')['award_amount'].sum(): one row per
\* agency, keys in sorted order
AgencyTotals(rows) ==
    LET names == {rows[i].awarding_agency_name : i \in DOMAIN rows} \ {NaN}
        keys  == OrderedSeq(names, [a \in names |-> AgencyRank(a)])
    IN  [k \in DOMAIN keys |->
            [awarding_agency_name |-> keys[k],
             award_amount |-> SumSeq(Amounts(SelectSeq(rows,
                 LAMBDA r : r.awarding_agency_name = keys[k])))]]

\* .sort_values(ascending=True): by total, equal totals in their order
SortByTotal(t) ==
    LET order == OrderByTotal(DOMAIN t, t)
    IN  [k \in DOMAIN order |-> t[order[k]]]

TopN == 10

\* .tail(n - 1): one row short
TailNShort(s, n) == IF Len(s) < n THEN s ELSE SubSeq(s, Len(s) - n + 2, Len(s))

\* .tail(10)
TailN(s, n) == IF Len(s) <= n THEN s ELSE SubSeq(s, Len(s) - n + 1, Len(s))

Top10Agencies(rows) == TailN(SortByTotal(AgencyTotals(rows)), TopN)

\* 'award_id': 'count' is the number of rows whose award_id is not missing
MonthCount(rows) == Len(SelectSeq(rows, LAMBDA r : r.award_id # NaN))

\* groupby(action_date.dt.to_period('M')).agg(sum, count): one row per
\* year-month (yyyymm), months ascending
Timeline(rows) ==
    LET ms     == {rows[i].action_date.date \div 100 :
                     i \in {j \in DOMAIN rows : ~rows[j].action_date.nat}}
        months == OrderedSeq(ms, [m \in ms |-> m])
    IN  [k \in DOMAIN months |->
            LET g == SelectSeq(rows, LAMBDA r :
                        ~r.action_date.nat /\ r.action_date.date \div 100 = months[k])
            IN  [month |-> months[k],
                 award_amount |-> SumSeq(Amounts(g)),
                 award_id |-> MonthCount(g)]]

SampleSize == 5

\* n=5 where the code has n=min(5, len(filtered_df))
SampleCountFixed(rows) == SampleSize

SampleCount(rows) == Min2(SampleSize, Len(rows))

\* filtered_df.sample(n): n distinct rows, any; ValueError when n exceeds
\* the number of rows
SampleRaises(rows) == SampleCount(rows) > Len(rows)

Samples(rows) == {S \in SUBSET DOMAIN rows : Cardinality(S) = SampleCount(rows)}

(***************************************************************************)
(* One run of the script, from `df = load_data()` to its last line.        *)
(*                                                                         *)
(* An uncaught exception ends the run where it is raised: what was         *)
(* rendered before stays on the page, Streamlit adds the exception, and    *)
(* the variables the run did not reach are not defined (blank here).       *)
(* StopsAt is the step that raises, 8 when none does:                      *)
(*   0  df is None: the else branch                                        *)
(*   1  st.date_input is handed NaT (no row has an action_date)            *)
(*   2  sorted(award sizes) compares NaN with a label                      *)
(*   3  df[col] for a selected theme that names no column                  *)
(*   4  filtered_df['recipient_name'] without that column                  *)
(*   5  the timeline's 'award_id' without that column                      *)
(*   6  display_cols without 'award_description'                           *)
(*   7  .sample(n) with n above the number of rows                         *)
(***************************************************************************)
BlankSelection == Selection(<<>>, "All", "All", {})

StopsAt(d, sel) ==
    IF ~d.ok THEN 0
    ELSE IF ActionDates(d) = {} THEN 1
    ELSE IF SizesSortRaises(d) THEN 2
    ELSE IF ThemeLookupRaises(d, sel.themes) THEN 3
    ELSE IF "recipient_name" \notin d.columns THEN 4
    ELSE IF "award_id" \notin d.columns THEN 5
    ELSE IF "award_description" \notin d.columns THEN 6
    ELSE IF SampleRaises(Filter(d, sel)) THEN 7
    ELSE 8

\* what is on the page after a run that stopped at step k
Rendered(k) ==
    IF k = 0 THEN {"load_error_notice", "unable_to_load_notice"}
    ELSE (IF k < 8 THEN {"exception"} ELSE {})
         \cup (IF k >= 2 THEN {"date_input", "agency_select"} ELSE {})
         \cup (IF k >= 3 THEN {"size_select", "theme_select"} ELSE {})
         \cup (IF k >= 4 THEN {"title", "metric_contracts", "metric_amount"} ELSE {})
         \cup (IF k >= 5 THEN {"metric_recipients", "theme_chart", "agency_chart"} ELSE {})
         \cup (IF k >= 6 THEN {"timeline_chart"} ELSE {})
         \cup (IF k >= 7 THEN {"table"} ELSE {})
         \cup (IF k >= 8 THEN {"featured_awards"} ELSE {})

Script(sel) ==
    LET d == CachedValue
        k == StopsAt(d, sel)
        f == Filter(d, sel)
    IN  /\ df' = d
        /\ cache' = CacheAfterCall
        /\ reads' = ReadsAfterCall
        /\ status' = IF k = 0 THEN "load_error" ELSE IF k < 8 THEN "exception" ELSE "ok"
        /\ rendered' = Rendered(k)
        /\ date_range' = IF k >= 2 THEN sel.date_range ELSE <<>>
        /\ selected_agency' = IF k >= 2 THEN sel.agency ELSE "All"
        /\ selected_size' = IF k >= 3 THEN sel.size ELSE "All"
        /\ selected_themes' = IF k >= 3 THEN sel.themes ELSE {}
        /\ filtered_df' = IF k >= 4 THEN f ELSE <<>>
        /\ metrics' = IF k >= 5 THEN Metrics(f) ELSE NoMetrics
        /\ theme_data' = IF k >= 5 THEN ThemeData(d, f) ELSE <<>>
        /\ top_10_agencies' = IF k >= 5 THEN Top10Agencies(f) ELSE <<>>
        /\ timeline_data' = IF k >= 6 THEN Timeline(f) ELSE <<>>
        /\ random_awards' \in (IF k >= 8 THEN Samples(f) ELSE {{}})
        /\ UNCHANGED csv

\* the page has the filter widgets (the frame loaded and has a date)
HasWidgets(d) == d.ok /\ ActionDates(d) # {}

\* what the widgets return in a run nobody has touched them in
DefaultWidgetValues(d) ==
    IF HasWidgets(d) THEN DefaultSelection(d) ELSE BlankSelection

\* the session's first run: every widget returns its default
FirstRun ==
    /\ status = "not_run"
    /\ Script(DefaultWidgetValues(CachedValue))

\* the widget values of the last run
CurrentSelection ==
    Selection(date_range, selected_agency, selected_size, selected_themes)

\* the widget values a rerun starts from
Cur(d) == IF date_range = <<>> THEN DefaultWidgetValues(d) ELSE CurrentSelection

\* a rerun of a page that has no filter widgets (the run stopped before
\* they were built)
Rerun ==
    /\ status # "not_run"
    /\ ~HasWidgets(CachedValue)
    /\ Script(BlankSelection)

\* the user picks another date range and the script runs again
ChangeDates ==
    /\ status # "not_run"
    /\ HasWidgets(CachedValue)
    /\ \E dr \in DateRanges(CachedValue) :
           Script([Cur(CachedValue) EXCEPT !.date_range = dr])

\* the user picks another agency and the script runs again
ChangeAgency ==
    /\ status # "not_run"
    /\ HasWidgets(CachedValue)
    /\ \E ag \in AgencyOptions(CachedValue) :
           Script([Cur(CachedValue) EXCEPT !.agency = ag])

\* the user picks another award size and the script runs again
ChangeSize ==
    /\ status # "not_run"
    /\ HasWidgets(CachedValue)
    /\ \E sz \in SizeOptions(CachedValue) :
           Script([Cur(CachedValue) EXCEPT !.size = sz])

\* the user ticks or unticks one theme label and the script runs again
ToggleTheme ==
    /\ status # "not_run"
    /\ HasWidgets(CachedValue)
    /\ \E t \in ThemeOptions(CachedValue) :
           Script([Cur(CachedValue) EXCEPT !.themes =
               IF t \in @ THEN @ \ {t} ELSE @ \cup {t}])

\* any interaction with the page
Interact == Rerun \/ ChangeDates \/ ChangeAgency \/ ChangeSize \/ ToggleTheme

\* the file on disk is replaced while the app is running
FileChanges(files) ==
    /\ csv' \in files \ {csv}
    /\ UNCHANGED <<cache, reads, df, date_range, selected_agency, selected_size,
                   selected_themes, filtered_df, metrics, theme_data,
                   top_10_agencies, timeline_data, random_awards, rendered, status>>

Next == FirstRun \/ Interact

(***************************************************************************)
(* Input files                                                             *)
(***************************************************************************)
FixedCols == {"award_id", "recipient_name", "awarding_agency_name",
              "award_amount", "action_date", "contract_start_date",
              "contract_end_date", "award_description"}

MkRow(id, recipient, agency, amount, adate, flags) ==
    [award_id |-> id, recipient_name |-> recipient,
     awarding_agency_name |-> agency, award_amount |-> amount,
     action_date |-> adate,
     contract_start_date |-> TsCell(20230101, 0),
     contract_end_date |-> TsCell(20231231, 0),
     award_description |-> "Training services", extra |-> flags]

MkFile(extra, rows) ==
    [exists |-> TRUE, columns |-> FixedCols, extra |-> extra, rows |-> rows]

\* all sequences over S of length lo..hi
SeqsOf(S, lo, hi) == UNION {[1..n -> S] : n \in lo..hi}

\* the text of a number of cents as a currency cell, "$1,234.56"
RECURSIVE NatChars(_)
NatChars(n) ==
    IF n < 10 THEN <<DigitChars[n + 1]>>
    ELSE NatChars(n \div 10) \o <<DigitChars[(n % 10) + 1]>>

RECURSIVE Commas(_)
Commas(s) ==
    IF Len(s) <= 3 THEN s
    ELSE Commas(SubSeq(s, 1, Len(s) - 3)) \o <<",">> \o SubSeq(s, Len(s) - 2, Len(s))

MoneyCell(c) ==
    <<"$">> \o Commas(NatChars(c \div 100)) \o <<".">>
        \o <<DigitChars[((c % 100) \div 10) + 1], DigitChars[(c % 10) + 1]>>

(***************************************************************************)
(* SpecCut: load_data on one-row files whose amount lies within CutSpread  *)
(* cents of a bin edge.                                                    *)
(***************************************************************************)
CutSpread == 10

CutAmounts ==
    {a \in {BinEdges[i] + k : i \in DOMAIN BinEdges, k \in -CutSpread..CutSpread} :
        a >= 0}

CutFiles ==
    {MkFile(<<>>, <<MkRow("A1", "Acme", "Dept X", MoneyCell(a),
                          TsCell(20230115, 0), <<>>)>>) : a \in CutAmounts}

InitCut == csv \in CutFiles /\ NotRun

SpecCut == InitCut /\ [][CallLoadData]_vars

(***************************************************************************)
(* SpecCanon: load_data on files of up to MaxCanonRows rows whose agency   *)
(* names are the keys of the mapping and names that are not keys.          *)
(***************************************************************************)
MaxCanonRows == 2

RawAgencyNames ==
    DOMAIN agency_mappings \cup {"Dept X", "Department of Justice (DoJ)"}

CanonFiles ==
    {MkFile(<<>>, [i \in DOMAIN names |->
                     MkRow("A1", "Acme", names[i], <<"$", "5">>,
                           TsCell(20230115, 0), <<>>)]) :
        names \in SeqsOf(RawAgencyNames, 1, MaxCanonRows)}

InitCanon == csv \in CanonFiles /\ NotRun

SpecCanon == InitCanon /\ [][CallLoadData]_vars

(***************************************************************************)
(* Spec: sessions over well-formed files of 1..MaxRows rows with the theme *)
(* columns theme_a and theme_b.  A row is the base row or the base row     *)
(* with one field changed: another agency, another size category, an       *)
(* amount of zero, a later date with a time of day, no date, another       *)
(* theme.                                                                  *)
(***************************************************************************)
MaxRows == 2

theme_a == ThemePrefix \o <<"a">>
theme_b == ThemePrefix \o <<"b">>

BaseRow ==
    MkRow("A1", "Acme", "Department of Justice (DOJ)", <<"$", "5">>,
          TsCell(20230115, 0), <<TRUE, FALSE>>)

MainRows ==
    {BaseRow}
    \cup {[BaseRow EXCEPT !.awarding_agency_name = "Dept X", !.recipient_name = "Bolt"]}
    \cup {[BaseRow EXCEPT !.award_amount = am] :
             am \in {<<"2", "0", ",", "0", "0", "0">>, <<"$", "0">>}}
    \cup {[BaseRow EXCEPT !.action_date = dt] :
             dt \in {TsCell(20230210, 1), EmptyCell}}
    \cup {[BaseRow EXCEPT !.extra = <<FALSE, TRUE>>]}

MainFiles ==
    {MkFile(<<theme_a, theme_b>>, rows) : rows \in SeqsOf(MainRows, 1, MaxRows)}

Init == csv \in MainFiles /\ NotRun

Spec == Init /\ [][Next]_vars

(***************************************************************************)
(* SpecLoad: sessions over files that may make load_data fail, with the    *)
(* file replaced on disk at any moment.  The files: no file; files of      *)
(* 1..MaxLoadRows rows among a good row and rows with one bad cell (a date *)
(* that is no date in action_date or contract_start_date, an amount that   *)
(* is no number); the good one-row file with one column left out; the good *)
(* one-row file with both optional columns already present.                *)
(***************************************************************************)
MaxLoadRows == 1

MissingFile == [exists |-> FALSE, columns |-> {}, extra |-> <<>>, rows |-> <<>>]

GoodRow ==
    MkRow("A1", "Acme", "Department of Justice (DOJ)", <<"$", "5">>,
          TsCell(20230115, 0), <<TRUE>>)

LoadRows ==
    {GoodRow,
     [GoodRow EXCEPT !.action_date = BadCell],
     [GoodRow EXCEPT !.contract_start_date = BadCell],
     [GoodRow EXCEPT !.award_amount = <<"N", "/", "A">>],
     [GoodRow EXCEPT !.award_amount = <<"$">>]}

GoodFile == MkFile(<<theme_a>>, <<GoodRow>>)

OtherGoodFile ==
    MkFile(<<theme_a>>, <<[GoodRow EXCEPT !.awarding_agency_name = "Dept X"]>>)

PrecomputedFile ==
    [MkFile(<<theme_a>>,
            <<[contract_duration_days |-> <<10>>,
               award_size_category |-> "Small ($10K - $100K)"] @@ GoodRow>>)
     EXCEPT !.columns = @ \cup {"contract_duration_days", "award_size_category"}]

LoadFiles ==
    {MissingFile, PrecomputedFile}
    \cup {MkFile(<<theme_a>>, rows) : rows \in SeqsOf(LoadRows, 1, MaxLoadRows)}
    \cup {[GoodFile EXCEPT !.columns = @ \ {c}] : c \in FixedCols}

ReplacementFiles == {MissingFile, GoodFile, OtherGoodFile}

InitLoad == csv \in LoadFiles /\ NotRun

NextLoad == FirstRun \/ Interact \/ FileChanges(ReplacementFiles)

SpecLoad == InitLoad /\ [][NextLoad]_vars

(***************************************************************************)
(* SpecAgg: the aggregation block of the script (metrics, theme counts,    *)
(* agency totals, timeline) applied to the filtered_df of a default run.   *)
(* The start state is the script after `filtered_df = df[mask]`.  Files:   *)
(*   - one row per agency for 0..TopN+TopSurplus agencies, agency number i *)
(*     of n with amount (n+1-i) dollars, none, one or all of them with     *)
(*     amount 0 instead, and possibly a second row for the first agency    *)
(*     with amount $2 or -$3;                                              *)
(*   - 0..MaxTimelineRows rows over three days of two months, two amounts, *)
(*     award_id present or missing.                                        *)
(***************************************************************************)
TopSurplus == 1

MaxTimelineRows == 2

TopRow(i, cents) ==
    MkRow("A1", "Acme", AgencyOrder[i],
          IF cents < 0 THEN <<"-">> \o MoneyCell(-cents) ELSE MoneyCell(cents),
          TsCell(20230115, 0), <<>>)

TopFiles ==
    UNION {
        {MkFile(<<>>, [i \in 1..n |-> TopRow(i, IF i \in zero THEN 0 ELSE (n + 1 - i) * 100)]
                      \o more) :
            zero \in {{}, 1..n} \cup {{z} : z \in 1..n},
            more \in {<<>>} \cup (IF n = 0 THEN {}
                                  ELSE {<<TopRow(1, 200)>>, <<TopRow(1, -300)>>})} :
        n \in 0..(TopN + TopSurplus)}

TimelineRows ==
    {MkRow(id, "Acme", "Dept X", am, dt, <<>>) :
        id \in {"A1", NaN},
        am \in {<<"$", "5">>, <<"2", "0", ",", "0", "0", "0">>},
        dt \in {TsCell(20230115, 0), TsCell(20230131, 1), TsCell(20230210, 0)}}

TimelineFiles ==
    {MkFile(<<>>, rows) : rows \in SeqsOf(TimelineRows, 0, MaxTimelineRows)}

InitAgg ==
    /\ csv \in TopFiles \cup TimelineFiles
    /\ cache = [filled |-> TRUE, value |-> load_data(csv)]
    /\ reads = 1
    /\ df = cache.value
    /\ date_range = IF ActionDates(df) = {} THEN <<>>
                    ELSE <<min_date(df), max_date(df)>>
    /\ selected_agency = "All"
    /\ selected_size = "All"
    /\ selected_themes = {}
    /\ filtered_df = SelectSeq(df.rows, LAMBDA r : ~r.action_date.nat)
    /\ metrics = NoMetrics
    /\ theme_data = <<>>
    /\ top_10_agencies = <<>>
    /\ timeline_data = <<>>
    /\ random_awards = {}
    /\ rendered = {}
    /\ status = "filtered"

\* lines 195-272: the metrics and the three chart tables from filtered_df
Aggregate ==
    /\ status = "filtered"
    /\ metrics' = Metrics(filtered_df)
    /\ theme_data' = ThemeData(df, filtered_df)
    /\ top_10_agencies' = Top10Agencies(filtered_df)
    /\ timeline_data' = Timeline(filtered_df)
    /\ status' = "aggregated"
    /\ UNCHANGED <<csv, cache, reads, df, date_range, selected_agency,
                   selected_size, selected_themes, filtered_df, random_awards,
                   rendered>>

SpecAgg == InitAgg /\ [][Aggregate]_vars

(***************************************************************************)
(* SpecLabel: files with one or two theme columns, the first run and the   *)
(* ticking of the theme labels the sidebar offers.  A theme column is      *)
(* named theme_ followed by 1..MaxSuffix characters out of a lower-case    *)
(* letter, an upper-case letter, an underscore and a space, or by theme_a  *)
(* again; a second column comes after the column theme_a.                  *)
(***************************************************************************)
MaxSuffix == 2

SuffixChars == {"a", "B", "_", " "}

ThemeNames ==
    {ThemePrefix \o x : x \in SeqsOf(SuffixChars, 1, MaxSuffix) \cup {theme_a}}

LabelFiles ==
    {MkFile(<<c>>, <<MkRow("A1", "Acme", "Dept X", <<"$", "5">>,
                           TsCell(20230115, 0), <<TRUE>>)>>) : c \in ThemeNames}
    \cup
    {MkFile(<<theme_a, c>>, <<MkRow("A1", "Acme", "Dept X", <<"$", "5">>,
                                    TsCell(20230115, 0), <<TRUE, FALSE>>)>>) :
        c \in ThemeNames \ {theme_a}}

InitLabel == csv \in LabelFiles /\ NotRun

NextLabel == FirstRun \/ ToggleTheme

SpecLabel == InitLabel /\ [][NextLabel]_vars

(***************************************************************************)
(*                              Properties                                 *)
(***************************************************************************)

\* ---- C1 -----------------------------------------------------------------
\* the label of the half-open bucket [edge i, edge i+1) that holds a >= 0
HalfOpenLabel(a) ==
    SizeLabels[CHOOSE i \in DOMAIN SizeLabels :
        BinEdges[i] <= a /\ (i = Len(SizeLabels) \/ a < BinEdges[i + 1])]

\* C1: when load_data derives award_size_category, every amount a >= 0 gets
\* the label of the half-open bucket [lo, hi) that contains it (0 -> Micro,
\* 9999.99 -> Micro, 10000 -> Small, 10000000 -> Major).
C1_HalfOpenBuckets ==
    status = "loaded" =>
        \A i \in DOMAIN df.rows :
            df.rows[i].award_amount >= 0 =>
                df.rows[i].award_size_category = HalfOpenLabel(df.rows[i].award_amount)

\* ---- C2 -----------------------------------------------------------------
\* C2: canonicalization is idempotent and leaves unknown names alone: the
\* agency name load_data stored is a fixed point of the mapping, and it is
\* the raw name whenever the raw name is not a key of the table.
C2_CanonicalIdempotent ==
    status = "loaded" =>
        \A i \in DOMAIN df.rows :
            LET raw   == csv.rows[i].awarding_agency_name
                canon == df.rows[i].awarding_agency_name
            IN  /\ Canonicalize(canon) = canon
                /\ (raw \notin DOMAIN agency_mappings => canon = raw)
                /\ (raw \in DOMAIN agency_mappings => canon = agency_mappings[raw])

\* a synonym was replaced by its canonical name and an unknown name was kept
C2_Witness ==
    /\ status = "loaded"
    /\ \E i \in DOMAIN df.rows :
           /\ csv.rows[i].awarding_agency_name = "Department of Justice (DOJ)"
           /\ df.rows[i].awarding_agency_name = "Department of Justice"
    /\ \E i \in DOMAIN df.rows :
           /\ csv.rows[i].awarding_agency_name = "Dept X"
           /\ df.rows[i].awarding_agency_name = "Dept X"

\* ---- the four filter predicates as the specification words them ---------
HasDate(r) == ~r.action_date.nat

PassesDate(r) ==
    /\ HasDate(r)
    /\ date_range[1] <= r.action_date.date
    /\ r.action_date.date <= date_range[2]

PassesAgency(r) ==
    selected_agency = "All" \/ r.awarding_agency_name = selected_agency

\* a row whose category is missing has no category to be equal to
PassesSize(r) ==
    \/ selected_size = "All"
    \/ (r.award_size_category # NaN /\ r.award_size_category = selected_size)

\* some selected label is the label of a theme column whose flag is set
PassesTheme(r) ==
    \/ selected_themes = {}
    \/ \E k \in DOMAIN df.extra :
           /\ StartsWith(df.extra[k], ThemePrefix)
           /\ ThemeLabel(df.extra[k]) \in selected_themes
           /\ r.extra[k]

PassesAll(r) == PassesDate(r) /\ PassesAgency(r) /\ PassesSize(r) /\ PassesTheme(r)

\* the run got as far as computing filtered_df
FilterRan == "title" \in rendered

\* the widgets hold their defaults: full date range, All, All, no theme
FullRangeNoFilter ==
    /\ date_range = <<min_date(df), max_date(df)>>
    /\ selected_agency = "All"
    /\ selected_size = "All"
    /\ selected_themes = {}

\* ---- C3 -----------------------------------------------------------------
\* C3 as stated: with agency All, size All, no theme and the date range
\* [min(action_date), max(action_date)], the filter returns every row of
\* the table, in the original order.
C3_FullRangeReturnsAll ==
    (FilterRan /\ FullRangeNoFilter) => filtered_df = df.rows

\* C3 amended: with those selections the filter returns, in the original
\* order, every row that has an action_date; a row whose action_date is
\* missing is not returned.
C3_FullRangeReturnsDated ==
    (FilterRan /\ FullRangeNoFilter) => filtered_df = SelectSeq(df.rows, HasDate)

\* a default run over a table whose last row is the latest, with a time of
\* day, kept both rows in order
C3_Witness ==
    /\ status = "ok"
    /\ FullRangeNoFilter
    /\ Len(df.rows) = 2
    /\ filtered_df = df.rows
    /\ df.rows[1].action_date.date < df.rows[2].action_date.date
    /\ df.rows[2].action_date.tod > 0

\* ---- C4 -----------------------------------------------------------------
\* C4: a row is in the filtered output iff it passes the date, agency, size
\* and theme predicates (themes OR-ed), and the output keeps the row order.
C4_FilterIsConjunction ==
    FilterRan => filtered_df = SelectSeq(df.rows, PassesAll)

\* both themes are selected, an agency is selected, and of two rows the one
\* with theme_a set and theme_b clear passed while the other did not
C4_Witness ==
    /\ status = "ok"
    /\ selected_themes = {ThemeLabel(theme_a), ThemeLabel(theme_b)}
    /\ selected_agency # "All"
    /\ Len(df.rows) = 2
    /\ Len(filtered_df) = 1
    /\ filtered_df[1].extra = <<TRUE, FALSE>>

\* ---- C9 -----------------------------------------------------------------
\* the widgets were built and the selection matches no row
NothingSelected ==
    /\ "theme_select" \in rendered
    /\ \A i \in DOMAIN df.rows : ~PassesAll(df.rows[i])

\* C9: when the selection matches no row the run completes without error
\* with 0 contracts, amount 0, 0 recipients, no agency bar, no month, count
\* 0 for every theme and an empty sample.
C9_EmptyResultIsZero ==
    NothingSelected =>
        /\ status = "ok"
        /\ "featured_awards" \in rendered
        /\ filtered_df = <<>>
        /\ metrics = [total_contracts |-> 0, total_award_amount |-> 0,
                      unique_recipients |-> 0]
        /\ top_10_agencies = <<>>
        /\ timeline_data = <<>>
        /\ Len(theme_data) = Len(ThemeColumns(df))
        /\ \A k \in DOMAIN theme_data : theme_data[k].count = 0
        /\ random_awards = {}

\* a date range between the dates of two rows leaves nothing
C9_Witness ==
    /\ NothingSelected
    /\ status = "ok"
    /\ Len(df.rows) = 2
    /\ date_range = <<20230120, 20230120>>
    /\ selected_agency = "All" /\ selected_size = "All" /\ selected_themes = {}

\* ---- C7 -----------------------------------------------------------------
LoaderColumns ==
    {"action_date", "contract_start_date", "contract_end_date", "award_amount",
     "awarding_agency_name"}

\* the text left after deleting '$' and ',' is a number
IsNumericText(cell) == ParseAmount(cell) # <<>>

\* a step of load_data fails on this file: the file is missing, a column
\* the loader touches is missing, a date cell is no date, or an amount is
\* not numeric after stripping
LoadStepFails(file) ==
    \/ ~file.exists
    \/ LoaderColumns \ file.columns # {}
    \/ \E i \in DOMAIN file.rows :
           \/ \E c \in Range(date_columns) : file.rows[i][c].kind = "bad"
           \/ ~IsNumericText(file.rows[i].award_amount)

ErrorNoticesOnly == {"load_error_notice", "unable_to_load_notice"}

C8_LoadedOnceAndImmutable ==
    /\ [](reads <= 1)
    /\ [](status # "not_run" => (cache.filled /\ df = cache.value))
    /\ [][cache.filled => cache' = cache]_vars
    /\ [][(status # "not_run" /\ status' # "not_run") => df' = df]_vars

\* the file on disk is no longer the one that was loaded, and a run after
\* an interaction still works on the table loaded first
C8_Witness ==
    /\ status = "ok"
    /\ reads = 1
    /\ selected_agency # "All"
    /\ load_data(csv) # cache.value
    /\ df = cache.value

\* ---- C5 -----------------------------------------------------------------
\* the sum of the totals the agency chart shows
ShownTotal == SumSeq([k \in DOMAIN top_10_agencies |-> top_10_agencies[k].award_amount])

ShownAgencies == {top_10_agencies[k].awarding_agency_name : k \in DOMAIN top_10_agencies}

DistinctAgencies == {filtered_df[i].awarding_agency_name : i \in DOMAIN filtered_df}

\* the amounts of the rows whose agency the chart leaves out
LeftOutTotal ==
    SumSeq(Amounts(SelectSeq(filtered_df,
        LAMBDA r : r.awarding_agency_name \notin ShownAgencies)))

NoNegativeAmount == \A i \in DOMAIN filtered_df : filtered_df[i].award_amount >= 0

C6_TimelineSums ==
    status = "aggregated" =>
        /\ SumSeq([k \in DOMAIN timeline_data |-> timeline_data[k].award_id])
               = Len(filtered_df)
        /\ SumSeq([k \in DOMAIN timeline_data |-> timeline_data[k].award_amount])
               = metrics.total_award_amount
        /\ \A k \in DOMAIN timeline_data :
               k > 1 => timeline_data[k - 1].month < timeline_data[k].month
        /\ {timeline_data[k].month : k \in DOMAIN timeline_data}
               = {filtered_df[i].action_date.date \div 100 : i \in DOMAIN filtered_df}

\* ---- C10 ----------------------------------------------------------------
\* C10: every theme column of the loaded table is what its label maps back
\* to; so no selection of offered labels fails to resolve to a column, and
\* distinct theme columns have distinct labels.
C10_LabelRoundTrip ==
    (status # "not_run" /\ df.ok) =>
        /\ \A c \in Range(ThemeColumns(df)) : ThemeColumnOf(ThemeLabel(c)) = c
        /\ ~ThemeLookupRaises(df, selected_themes)
        /\ \A i, j \in DOMAIN ThemeColumns(df) :
               ThemeColumns(df)[i] # ThemeColumns(df)[j]
                   => ThemeLabel(ThemeColumns(df)[i]) # ThemeLabel(ThemeColumns(df)[j])

====
